---- MODULE Spec2Model ----
(***************************************************************************)
(* Model of sorting.py: three three-way comparators, the linear merge      *)
(* step, merge sort, the copying quicksort with a random pivot, and the    *)
(* in-place quicksort.  Lists are objects on a heap (a sequence of lists,  *)
(* the index is the list's identity), so that aliasing between a returned  *)
(* list and the caller's list is visible.                                  *)
(***************************************************************************)
EXTENDS Integers, Sequences, FiniteSets, TLC

\* longest input list
MaxLen == 4

\* list elements: two last digits, and two values sharing a last digit
Values == {1, 2, 11}

\* scalar arguments of direct comparator calls (the doctest values included)
Scalars == Values \cup {124, 125, 322, 523}

\* deepest recursion of quick_sorted the model follows
MaxDepth == MaxLen + 2

Comparators == {"cmp_standard", "cmp_reverse", "cmp_last_digit"}

VARIABLES
    pc,      \* "idle" (call not started), "running", "done", "mutated"
    fn,      \* the function the caller invokes
    cmp,     \* the comparator passed (or invoked, when fn = "cmp")
    a, b,    \* scalar arguments of a direct comparator call
    heap,    \* heap[r] is the content of the list with identity r
    ret,     \* the value returned to the caller
    stack,   \* call frames of quick_sorted, innermost last
    xs0, ys0 \* content of the caller's lists when the call was made

vars == <<pc, fn, cmp, a, b, heap, ret, stack, xs0, ys0>>

\* identities of the caller's lists
XS == 1
YS == 2

NoValue == [kind |-> "pending", val |-> 0]
None == [kind |-> "None", val |-> 0]
Ref(r) == [kind |-> "ref", val |-> r]
IntVal(n) == [kind |-> "int", val |-> n]

----------------------------------------------------------------------------
(* Comparators *)

cmp_standard(x, y) ==
    IF x < y THEN -1
    ELSE IF y < x THEN 1
    ELSE 0

cmp_reverse(x, y) ==
    IF x < y THEN 1
    ELSE IF y < x THEN -1
    ELSE 0

cmp_last_digit_nomod(x, y) == cmp_standard(x, y)

cmp_last_digit(x, y) == cmp_standard(x % 10, y % 10)

\* cmp(x, y) for the comparator named c
Apply(c, x, y) ==
    IF c = "cmp_standard" THEN cmp_standard(x, y)
    ELSE IF c = "cmp_reverse" THEN cmp_reverse(x, y)
    ELSE cmp_last_digit(x, y)

----------------------------------------------------------------------------
(* Merge step and merge sort *)

RECURSIVE merged_loop(_, _, _, _, _, _)
\* the three loops of _merged; i and j are the 0-based cursors of the code
merged_loop(xs, ys, c, i, j, merged_list) ==
    IF i < Len(xs) /\ j < Len(ys)
    THEN LET compare == Apply(c, xs[i + 1], ys[j + 1]) IN
         IF compare = -1
         THEN merged_loop(xs, ys, c, i + 1, j, Append(merged_list, xs[i + 1]))
         ELSE IF compare = 1
         THEN merged_loop(xs, ys, c, i, j + 1, Append(merged_list, ys[j + 1]))
         ELSE merged_loop(xs, ys, c, i + 1, j + 1,
                          merged_list \o <<xs[i + 1], ys[j + 1]>>)
    ELSE merged_list \o SubSeq(xs, i + 1, Len(xs)) \o SubSeq(ys, j + 1, Len(ys))

RECURSIVE merged_loop_tie_one(_, _, _, _, _, _)
merged_loop_tie_one(xs, ys, c, i, j, merged_list) ==
    IF i < Len(xs) /\ j < Len(ys)
    THEN LET compare == Apply(c, xs[i + 1], ys[j + 1]) IN
         IF compare = -1
         THEN merged_loop_tie_one(xs, ys, c, i + 1, j, Append(merged_list, xs[i + 1]))
         ELSE IF compare = 1
         THEN merged_loop_tie_one(xs, ys, c, i, j + 1, Append(merged_list, ys[j + 1]))
         ELSE merged_loop_tie_one(xs, ys, c, i + 1, j + 1,
                                  Append(merged_list, xs[i + 1]))
    ELSE merged_list \o SubSeq(xs, i + 1, Len(xs)) \o SubSeq(ys, j + 1, Len(ys))

merged_tie_one(xs, ys, c) == merged_loop_tie_one(xs, ys, c, 0, 0, <<>>)

merged_concat(xs, ys, c) == xs \o ys

RECURSIVE merged_loop_tie_ys_first(_, _, _, _, _, _)
merged_loop_tie_ys_first(xs, ys, c, i, j, merged_list) ==
    IF i < Len(xs) /\ j < Len(ys)
    THEN LET compare == Apply(c, xs[i + 1], ys[j + 1]) IN
         IF compare = -1
         THEN merged_loop_tie_ys_first(xs, ys, c, i + 1, j, Append(merged_list, xs[i + 1]))
         ELSE IF compare = 1
         THEN merged_loop_tie_ys_first(xs, ys, c, i, j + 1, Append(merged_list, ys[j + 1]))
         ELSE merged_loop_tie_ys_first(xs, ys, c, i + 1, j + 1,
                                       merged_list \o <<ys[j + 1], xs[i + 1]>>)
    ELSE merged_list \o SubSeq(xs, i + 1, Len(xs)) \o SubSeq(ys, j + 1, Len(ys))

merged_tie_ys_first(xs, ys, c) == merged_loop_tie_ys_first(xs, ys, c, 0, 0, <<>>)

merged(xs, ys, c) == merged_loop(xs, ys, c, 0, 0, <<>>)

RECURSIVE merge_sorted(_, _)
merge_sorted(xs, c) ==
    LET copy == xs IN
    IF Len(copy) <= 1
    THEN copy
    ELSE LET mid == Len(copy) \div 2
             left == SubSeq(copy, 1, mid)
             right == SubSeq(copy, mid + 1, Len(copy))
             s1 == merge_sorted(left, c)
             s2 == merge_sorted(right, c)
         IN merged(s1, s2, c)

----------------------------------------------------------------------------
(* Copying quicksort: helpers *)

Range(s) == {s[i] : i \in DOMAIN s}

partition_le(xs, p) ==
    [less_than |-> SelectSeq(xs, LAMBDA x : x <= p),
     greater_than |-> SelectSeq(xs, LAMBDA x : x > p),
     pivot |-> <<>>]

\* the for loop of quick_sorted: natural < and >, in list order
partition(xs, p) ==
    [less_than |-> SelectSeq(xs, LAMBDA x : x < p),
     greater_than |-> SelectSeq(xs, LAMBDA x : (~(x < p)) /\ x > p),
     pivot |-> SelectSeq(xs, LAMBDA x : (~(x < p)) /\ ~(x > p))]

concat_always_ascending(c, s1, pv, s2) ==
    [returns |-> "list", val |-> s1 \o pv \o s2]

concat_default_ascending(c, s1, pv, s2) ==
    IF c = "cmp_reverse"
    THEN [returns |-> "list", val |-> s2 \o pv \o s1]
    ELSE [returns |-> "list", val |-> s1 \o pv \o s2]

\* the two identity tests that end quick_sorted; falling through returns None
concat(c, s1, pv, s2) ==
    IF c = "cmp_standard"
    THEN [returns |-> "list", val |-> s1 \o pv \o s2]
    ELSE IF c = "cmp_reverse"
    THEN [returns |-> "list", val |-> s2 \o pv \o s1]
    ELSE [returns |-> "None", val |-> <<>>]

----------------------------------------------------------------------------
(* Calls the caller can make *)

Seqs(n) == UNION {[1..k -> Values] : k \in 0..n}

IsSorted(s, c) == \A i \in 1..(Len(s) - 1) : Apply(c, s[i], s[i + 1]) \in {-1, 0}

Count(s, v) == Cardinality({i \in DOMAIN s : s[i] = v})

IsPermutation(s, t) == Len(s) = Len(t) /\ \A v \in Values : Count(s, v) = Count(t, v)

Call(f, c, xs, ys, x, y) == [fn |-> f, cmp |-> c, xs |-> xs, ys |-> ys, a |-> x, b |-> y]

Calls ==
    {Call("cmp", c, <<>>, <<>>, x, y) : c \in Comparators, x \in Scalars, y \in Scalars}
    \cup {Call("_merged", t[1], t[2], t[3], 0, 0) :
            t \in {u \in Comparators \X Seqs(MaxLen) \X Seqs(MaxLen) :
                     IsSorted(u[2], u[1]) /\ IsSorted(u[3], u[1])}}
    \cup {Call(f, c, xs, <<>>, 0, 0) :
            f \in {"merge_sorted", "quick_sorted", "quick_sort"},
            c \in Comparators, xs \in Seqs(MaxLen)}

Init ==
    \E call \in Calls :
        /\ pc = "idle"
        /\ fn = call.fn
        /\ cmp = call.cmp
        /\ a = call.a
        /\ b = call.b
        /\ heap = <<call.xs, call.ys>>
        /\ xs0 = call.xs
        /\ ys0 = call.ys
        /\ ret = NoValue
        /\ stack = <<>>

----------------------------------------------------------------------------
(* Direct comparator calls *)

CmpStandard ==
    /\ pc = "idle" /\ fn = "cmp" /\ cmp = "cmp_standard"
    /\ ret' = IntVal(cmp_standard(a, b))
    /\ pc' = "done"
    /\ UNCHANGED <<fn, cmp, a, b, heap, stack, xs0, ys0>>

CmpReverse ==
    /\ pc = "idle" /\ fn = "cmp" /\ cmp = "cmp_reverse"
    /\ ret' = IntVal(cmp_reverse(a, b))
    /\ pc' = "done"
    /\ UNCHANGED <<fn, cmp, a, b, heap, stack, xs0, ys0>>

CmpLastDigit ==
    /\ pc = "idle" /\ fn = "cmp" /\ cmp = "cmp_last_digit"
    /\ ret' = IntVal(cmp_last_digit(a, b))
    /\ pc' = "done"
    /\ UNCHANGED <<fn, cmp, a, b, heap, stack, xs0, ys0>>

----------------------------------------------------------------------------
(* _merged and merge_sorted: the result is a newly allocated list *)

MergedPop ==
    /\ pc = "idle" /\ fn = "_merged"
    /\ heap' = <<<<>>, <<>>, merged(heap[XS], heap[YS], cmp)>>
    /\ ret' = Ref(Len(heap) + 1)
    /\ pc' = "done"
    /\ UNCHANGED <<fn, cmp, a, b, stack, xs0, ys0>>

Merged ==
    /\ pc = "idle" /\ fn = "_merged"
    /\ heap' = Append(heap, merged(heap[XS], heap[YS], cmp))
    /\ ret' = Ref(Len(heap) + 1)
    /\ pc' = "done"
    /\ UNCHANGED <<fn, cmp, a, b, stack, xs0, ys0>>

MergeSorted ==
    /\ pc = "idle" /\ fn = "merge_sorted"
    /\ heap' = Append(heap, merge_sorted(heap[XS], cmp))
    /\ ret' = Ref(Len(heap) + 1)
    /\ pc' = "done"
    /\ UNCHANGED <<fn, cmp, a, b, stack, xs0, ys0>>

----------------------------------------------------------------------------
(* quick_sorted, one step per action *)

Frame(r) ==
    [xs |-> r, pc |-> "enter", p |-> 0,
     less_than |-> 0, greater_than |-> 0, pivot |-> 0,
     s1 |-> NoValue, s2 |-> NoValue]

Top == stack[Len(stack)]

Callers == SubSeq(stack, 1, Len(stack) - 1)

\* a return statement: the value goes to s1 or s2 of the calling frame, or
\* to the caller of the outermost call
Return(rv) ==
    IF Callers = <<>>
    THEN /\ stack' = <<>>
         /\ ret' = rv
         /\ pc' = "done"
    ELSE LET caller == Callers[Len(Callers)] IN
         /\ stack' = [Callers EXCEPT ![Len(Callers)] =
                         IF caller.pc = "wait1"
                         THEN [caller EXCEPT !.s1 = rv, !.pc = "call2"]
                         ELSE [caller EXCEPT !.s2 = rv, !.pc = "concat"]]
         /\ ret' = ret
         /\ pc' = pc

Deref(rv) == IF rv.kind = "ref" THEN heap[rv.val] ELSE <<>>

QuickSorted ==
    /\ pc = "idle" /\ fn = "quick_sorted"
    /\ stack' = <<Frame(XS)>>
    /\ pc' = "running"
    /\ UNCHANGED <<fn, cmp, a, b, heap, ret, xs0, ys0>>

QsBaseCopy ==
    /\ pc = "running"
    /\ Top.pc = "enter"
    /\ Len(heap[Top.xs]) <= 1
    /\ heap' = heap \o <<<<>>, <<>>, <<>>, heap[Top.xs]>>
    /\ Return(Ref(Len(heap) + 4))
    /\ UNCHANGED <<fn, cmp, a, b, xs0, ys0>>

\* len(xs) <= 1: the three local lists were allocated, xs itself is returned
QsBase ==
    /\ pc = "running"
    /\ Top.pc = "enter"
    /\ Len(heap[Top.xs]) <= 1
    /\ heap' = heap \o <<<<>>, <<>>, <<>>>>
    /\ Return(Ref(Top.xs))
    /\ UNCHANGED <<fn, cmp, a, b, xs0, ys0>>

\* len(xs) >= 2: random.choice picks an element of xs, the loop fills the
\* three local lists
QsPartition ==
    /\ pc = "running"
    /\ Top.pc = "enter"
    /\ Len(heap[Top.xs]) > 1
    /\ \E p \in Range(heap[Top.xs]) :
          LET parts == partition(heap[Top.xs], p)
              n == Len(heap)
          IN /\ heap' = heap \o <<parts.less_than, parts.greater_than, parts.pivot>>
             /\ stack' = [stack EXCEPT ![Len(stack)] =
                             [Top EXCEPT !.p = p, !.less_than = n + 1,
                                         !.greater_than = n + 2, !.pivot = n + 3,
                                         !.pc = "call1"]]
    /\ UNCHANGED <<pc, fn, cmp, a, b, ret, xs0, ys0>>

QsCallLess ==
    /\ pc = "running"
    /\ Top.pc = "call1"
    /\ Len(stack) < MaxDepth
    /\ stack' = Append([stack EXCEPT ![Len(stack)] = [Top EXCEPT !.pc = "wait1"]],
                       Frame(Top.less_than))
    /\ UNCHANGED <<pc, fn, cmp, a, b, heap, ret, xs0, ys0>>

QsCallGreater ==
    /\ pc = "running"
    /\ Top.pc = "call2"
    /\ Len(stack) < MaxDepth
    /\ stack' = Append([stack EXCEPT ![Len(stack)] = [Top EXCEPT !.pc = "wait2"]],
                       Frame(Top.greater_than))
    /\ UNCHANGED <<pc, fn, cmp, a, b, heap, ret, xs0, ys0>>

QsConcat ==
    /\ pc = "running"
    /\ Top.pc = "concat"
    /\ LET r == concat(cmp, Deref(Top.s1), heap[Top.pivot], Deref(Top.s2)) IN
          IF r.returns = "list"
          THEN /\ heap' = Append(heap, r.val)
               /\ Return(Ref(Len(heap) + 1))
          ELSE /\ heap' = heap
               /\ Return(None)
    /\ UNCHANGED <<fn, cmp, a, b, xs0, ys0>>

QsStep == QsBase \/ QsPartition \/ QsCallLess \/ QsCallGreater \/ QsConcat

----------------------------------------------------------------------------
(* quick_sort: the body is the docstring alone *)

QuickSort ==
    /\ pc = "idle" /\ fn = "quick_sort"
    /\ ret' = None
    /\ pc' = "done"
    /\ UNCHANGED <<fn, cmp, a, b, heap, stack, xs0, ys0>>

----------------------------------------------------------------------------
(* The caller appends to the list it was handed back *)

Mutate ==
    /\ pc = "done"
    /\ ret.kind = "ref"
    /\ \E v \in Values : heap' = [heap EXCEPT ![ret.val] = Append(@, v)]
    /\ pc' = "mutated"
    /\ UNCHANGED <<fn, cmp, a, b, ret, stack, xs0, ys0>>

Next ==
    \/ CmpStandard
    \/ CmpReverse
    \/ CmpLastDigit
    \/ Merged
    \/ MergeSorted
    \/ QuickSorted
    \/ QsBase
    \/ QsPartition
    \/ QsCallLess
    \/ QsCallGreater
    \/ QsConcat
    \/ QuickSort
    \/ Mutate

Spec == Init /\ [][Next]_vars

\* the interpreter keeps executing a call that has started
FairSpec == Init /\ [][Next]_vars /\ WF_vars(QuickSorted \/ QsStep)

----------------------------------------------------------------------------
(* Properties *)

Result == heap[ret.val]

Returned(f) == fn = f /\ pc = "done"

\* C1: for every sequence xs and each of the three comparators,
\* merge_sorted(xs, cmp) returns a list that is a permutation of xs and in
\* which cmp of every adjacent pair is -1 or 0.
MergeSortSorts ==
    Returned("merge_sorted") =>
        /\ ret.kind = "ref"
        /\ IsPermutation(Result, xs0)
        /\ IsSorted(Result, cmp)

MergeSortSortsWitness ==
    /\ Returned("merge_sorted")
    /\ cmp = "cmp_last_digit"
    /\ xs0 = <<2, 11, 1>>
    /\ Result = <<11, 1, 2>>

\* C2: for the ascending and the descending comparator and every sequence of
\* pivot choices, quick_sorted(xs, cmp) returns a list that is a permutation
\* of xs and sorted per cmp.
QuickSortedSorts ==
    (Returned("quick_sorted") /\ cmp \in {"cmp_standard", "cmp_reverse"}) =>
        /\ ret.kind = "ref"
        /\ IsPermutation(Result, xs0)
        /\ IsSorted(Result, cmp)

QuickSortedSortsWitness ==
    /\ Returned("quick_sorted")
    /\ cmp = "cmp_reverse"
    /\ xs0 = <<1, 11, 2, 11>>
    /\ Result = <<11, 11, 2, 1>>

\* C3: after quick_sort(xs, cmp) with the ascending or the descending
\* comparator, the caller's list has its old length, is a permutation of its
\* old content and is sorted per cmp.
QuickSortSortsInPlace ==
    (Returned("quick_sort") /\ cmp \in {"cmp_standard", "cmp_reverse"}) =>
        /\ Len(heap[XS]) = Len(xs0)
        /\ IsPermutation(heap[XS], xs0)
        /\ IsSorted(heap[XS], cmp)

\* C4: for xs and ys each sorted per cmp (either may be empty),
\* _merged(xs, ys, cmp) returns a list of length |xs| + |ys| that holds the
\* elements of xs and of ys with their multiplicities and is sorted per cmp.
MergedMerges ==
    Returned("_merged") =>
        /\ ret.kind = "ref"
        /\ Len(Result) = Len(xs0) + Len(ys0)
        /\ \A v \in Values : Count(Result, v) = Count(xs0, v) + Count(ys0, v)
        /\ IsSorted(Result, cmp)

MergedMergesWitness ==
    /\ Returned("_merged")
    /\ cmp = "cmp_standard"
    /\ xs0 = <<1, 11>>
    /\ ys0 = <<2, 11>>
    /\ Result = <<1, 2, 11, 11>>

\* C5: while and after _merged, merge_sorted or quick_sorted runs, each list
\* the caller passed holds the elements it held at the call, in the same
\* order.
InputsUnchanged ==
    (fn \in {"_merged", "merge_sorted", "quick_sorted"} /\ pc \in {"running", "done"}) =>
        /\ heap[XS] = xs0
        /\ heap[YS] = ys0

InputsUnchangedWitness ==
    /\ Returned("_merged")
    /\ xs0 = <<1, 2>>
    /\ ys0 = <<1, 11>>
    /\ ret.val # XS /\ ret.val # YS
    /\ Result = <<1, 1, 2, 11>>
    /\ heap[XS] = <<1, 2>>
    /\ heap[YS] = <<1, 11>>

\* C6 as stated: for every xs already sorted per cmp (any of the three
\* comparators), merge_sorted(xs, cmp) returns a list equal to xs.
MergeSortIdempotent ==
    (Returned("merge_sorted") /\ IsSorted(xs0, cmp)) => Result = xs0

\* C6 as amended: the returned list equals xs for the ascending and the
\* descending comparator and for every xs of at most three elements; for the
\* last-digit comparator it is a permutation of xs that has, position by
\* position, an element with the same last digit as xs.
MergeSortIdempotentUpToTies ==
    (Returned("merge_sorted") /\ IsSorted(xs0, cmp)) =>
        /\ (cmp \in {"cmp_standard", "cmp_reverse"} \/ Len(xs0) <= 3) => Result = xs0
        /\ IsPermutation(Result, xs0)
        /\ \A i \in DOMAIN xs0 : Apply(cmp, Result[i], xs0[i]) = 0

MergeSortIdempotentWitness ==
    /\ Returned("merge_sorted")
    /\ cmp = "cmp_last_digit"
    /\ xs0 = <<1, 1, 11, 11>>
    /\ Result = <<1, 11, 1, 11>>

\* C7 as stated: for every input, lengths 0 and 1 included, the list
\* quick_sorted returns is not the caller's list, and appending to it
\* leaves the caller's list as it was.
QuickSortedReturnsCopy ==
    (fn = "quick_sorted" /\ pc \in {"done", "mutated"} /\ ret.kind = "ref") =>
        /\ ret.val # XS
        /\ heap[XS] = xs0

\* C7 as amended: for an input of at least two elements a returned list is
\* not the caller's list and appending to it leaves the caller's list as it
\* was; for an input of length 0 or 1 the returned list is the caller's list
\* itself and appending to it changes the caller's list.
QuickSortedReturnsCopyOfLong ==
    (fn = "quick_sorted" /\ pc \in {"done", "mutated"} /\ ret.kind = "ref") =>
        /\ Len(xs0) >= 2 => (ret.val # XS /\ heap[XS] = xs0)
        /\ Len(xs0) <= 1 => (ret.val = XS /\ (pc = "mutated" => heap[XS] # xs0))

QuickSortedReturnsCopyWitness ==
    /\ fn = "quick_sorted"
    /\ pc = "mutated"
    /\ xs0 = <<2>>
    /\ ret = Ref(XS)
    /\ heap[XS] = <<2, 1>>

LastDigitOrder(x, y, r) ==
    /\ r = -1 <=> x % 10 < y % 10
    /\ r = 1 <=> x % 10 > y % 10
    /\ r = 0 <=> x % 10 = y % 10

\* C8 as stated: cmp_last_digit orders by the last decimal digit only, with
\* cmp_last_digit(125, 322) = 1, cmp_last_digit(523, 322) = 1 and
\* cmp_last_digit(124, 322) = -1.
LastDigitExamples ==
    (Returned("cmp") /\ cmp = "cmp_last_digit") =>
        /\ LastDigitOrder(a, b, ret.val)
        /\ (a = 125 /\ b = 322) => ret.val = 1
        /\ (a = 523 /\ b = 322) => ret.val = 1
        /\ (a = 124 /\ b = 322) => ret.val = -1

\* C8 as amended: cmp_last_digit orders by the last decimal digit only, with
\* cmp_last_digit(125, 322) = 1, cmp_last_digit(523, 322) = 1 and
\* cmp_last_digit(124, 322) = 1 (4 is greater than 2).
LastDigitExamplesFixed ==
    (Returned("cmp") /\ cmp = "cmp_last_digit") =>
        /\ LastDigitOrder(a, b, ret.val)
        /\ (a = 125 /\ b = 322) => ret.val = 1
        /\ (a = 523 /\ b = 322) => ret.val = 1
        /\ (a = 124 /\ b = 322) => ret.val = 1

LastDigitExamplesWitness ==
    /\ Returned("cmp")
    /\ cmp = "cmp_last_digit"
    /\ a = 124 /\ b = 322
    /\ ret = IntVal(1)

\* every frame past its partition has a non-empty pivot list and two
\* sublists shorter than its xs, and the frames never outnumber len(xs) + 1
QsShrinks ==
    /\ Len(stack) <= Len(xs0) + 1
    /\ \A k \in DOMAIN stack :
          stack[k].pc # "enter" =>
              /\ heap[stack[k].pivot] # <<>>
              /\ Len(heap[stack[k].less_than]) < Len(heap[stack[k].xs])
              /\ Len(heap[stack[k].greater_than]) < Len(heap[stack[k].xs])

\* C9: quick_sorted returns on every input whatever pivots are chosen: the
\* pivot list is never empty, both recursive calls get a list shorter than
\* xs, and every call that starts reaches its return.
QuickSortedTerminates ==
    /\ []QsShrinks
    /\ (fn = "quick_sorted" /\ pc = "idle") ~> (pc = "done")

QuickSortedTerminatesWitness ==
    /\ Returned("quick_sorted")
    /\ xs0 = <<2, 1, 11, 1>>
    /\ Len(heap) > 10

====
